---- MODULE Spec2Model ----
(***************************************************************************)
(* Model of object_detection/eval.py: the flag object FLAGS, eval_main     *)
(* (label defaults, checkpoint_dir assertion, configuration strategy       *)
(* selection, output-directory derivation, evaluator dispatch) and main    *)
(* (single run or one pass over the comma-separated label list).           *)
(*                                                                         *)
(* A string is a sequence of atoms; '' is <<>>, + is \o, truthiness is     *)
(* being different from <<>>.  Literal fragments of the source are single  *)
(* atoms.                                                                  *)
(***************************************************************************)
EXTENDS Integers, Sequences, FiniteSets, TLC

\* ---------------------------------------------------------------- bounds
MaxLabelLen == 3

LabelChars == {"a", "b", ","}

\* ------------------------------------------------------- string helpers
RECURSIVE StrUpTo(_)
StrUpTo(n) ==
  IF n = 0 THEN {<<>>}
  ELSE LET shorter == StrUpTo(n - 1)
       IN  shorter \cup {Append(s, c) : s \in {t \in shorter : Len(t) = n - 1}, c \in LabelChars}

RECURSIVE SplitFrom(_, _)
SplitFrom(s, cur) ==
  IF s = <<>> THEN <<cur>>
  ELSE IF Head(s) = "," THEN <<cur>> \o SplitFrom(Tail(s), <<>>)
  ELSE SplitFrom(Tail(s), Append(cur, Head(s)))

\* str.split(','): always at least one element, empty elements kept
Split(s) == SplitFrom(s, <<>>)

\* os.path.join(d, f)
Join(d, f) ==
  IF d = <<>> THEN f
  ELSE IF d[Len(d)] = "/" THEN d \o f
  ELSE d \o <<"/">> \o f

\* time.strftime("%Y%m%d-%H%M%S"): some non-empty string
Timestamps == {<<"20180101-000000">>, <<"20180101-000001">>}

\* utils.mkdir_p(path): creates the directory and returns its path
mkdir_p(path) == path

None == "None"
One == "1"

\* ------------------------------------------------------ command line
FlagValues ==
  [eval_training_data   : BOOLEAN,
   checkpoint_dir       : {<<>>, <<"/tmp/ckpt">>},
   eval_dir             : {<<>>, <<"/tmp/out">>},
   pipeline_config_path : {<<>>, <<"pipeline.pbtxt">>},
   eval_config_path     : {<<>>, <<"eval.pbtxt">>},
   input_config_path    : {<<>>, <<"input.pbtxt">>},
   model_config_path    : {<<>>, <<"model.pbtxt">>},
   eval_tag             : {<<>>, <<"run1">>},
   eval_label           : StrUpTo(MaxLabelLen)]

VARIABLES FLAGS, FLAGS0, pc, mode, eval_label_list, idx,
          max_number_of_evaluations, graphResets, calls

vars == <<FLAGS, FLAGS0, pc, mode, eval_label_list, idx,
          max_number_of_evaluations, graphResets, calls>>

Init ==
  /\ FLAGS \in FlagValues
  /\ FLAGS0 = FLAGS
  /\ pc = "main"
  /\ mode = "NONE"
  /\ eval_label_list = <<>>
  /\ idx = 0
  /\ max_number_of_evaluations = None
  /\ graphResets = 0
  /\ calls = <<>>

\* ------------------------------------------------------------- main
\* variant: the list must hold more than two elements
IsMultiRun_MoreThanTwo(F) == Len(Split(F.eval_label)) > 2

\* else-branch of line 222: more than one element in the list
IsMultiRun(F) == ~ (F.eval_label = <<>> \/ Len(Split(F.eval_label)) = 1)

\* record of one eval_main invocation
NewCall(F, max) ==
  [label |-> F.eval_label, max |-> max, entry |-> F, exit |-> F,
   resets |-> graphResets,
   strategies |-> <<>>, reads |-> <<>>, returned |-> <<>>, mkdirs |-> <<>>,
   evaluated |-> <<>>, outcome |-> "running"]

Main ==
  /\ pc = "main"
  /\ eval_label_list' = Split(FLAGS.eval_label)
  /\ IF IsMultiRun(FLAGS)
       THEN /\ mode' = "MULTI_RUN"
            /\ idx' = 1
            /\ pc' = "loop"
            /\ UNCHANGED <<max_number_of_evaluations, calls>>
       ELSE /\ mode' = "SINGLE_RUN"
            /\ max_number_of_evaluations' = None
            /\ calls' = Append(calls, NewCall(FLAGS, None))
            /\ pc' = "eval_main"
            /\ UNCHANGED idx
  /\ UNCHANGED <<FLAGS, FLAGS0, graphResets>>

\* variant: checkpoint_dir is not reset between labels
ResetForLabel_KeepCheckpoint(F, eval_label) ==
  [F EXCEPT !.eval_label = eval_label,
            !.pipeline_config_path = <<>>]

\* variant: pipeline_config_path is not reset between labels
ResetForLabel_KeepPipeline(F, eval_label) ==
  [F EXCEPT !.eval_label = eval_label,
            !.checkpoint_dir = <<>>]

\* lines 227-229
ResetForLabel(F, eval_label) ==
  [F EXCEPT !.eval_label = eval_label,
            !.pipeline_config_path = <<>>,
            !.checkpoint_dir = <<>>]

LoopIter ==
  /\ pc = "loop"
  /\ idx <= Len(eval_label_list)
  /\ FLAGS' = ResetForLabel(FLAGS, eval_label_list[idx])
  /\ graphResets' = graphResets + 1
  /\ max_number_of_evaluations' = One
  /\ calls' = Append(calls, [NewCall(FLAGS', One) EXCEPT !.resets = graphResets'])
  /\ pc' = "eval_main"
  /\ UNCHANGED <<FLAGS0, mode, eval_label_list, idx>>

\* the for loop is exhausted, then the break of line 232 leaves while True
LoopBreak ==
  /\ pc = "loop"
  /\ idx > Len(eval_label_list)
  /\ pc' = "done"
  /\ UNCHANGED <<FLAGS, FLAGS0, mode, eval_label_list, idx,
                 max_number_of_evaluations, graphResets, calls>>

\* ------------------------------------------------------------ eval_main
\* variant: no label default for checkpoint_dir
ApplyLabelDefaults_NoCheckpointDefault(F) ==
  IF F.eval_label # <<>>
    THEN [F EXCEPT
            !.pipeline_config_path =
                IF F.pipeline_config_path = <<>>
                  THEN <<"../configs/test/">> \o F.eval_label \o <<".config">>
                  ELSE F.pipeline_config_path,
            !.eval_dir = <<"../checkpoints/eval/">> \o F.eval_label,
            !.eval_tag = F.eval_label]
    ELSE F

\* variant: the defaults are applied whether or not eval_label is set
ApplyLabelDefaults_Always(F) ==
  [F EXCEPT
     !.pipeline_config_path =
         IF F.pipeline_config_path = <<>>
           THEN <<"../configs/test/">> \o F.eval_label \o <<".config">>
           ELSE F.pipeline_config_path,
     !.checkpoint_dir =
         IF F.checkpoint_dir = <<>>
           THEN <<"../checkpoints/train/">> \o F.eval_label
           ELSE F.checkpoint_dir,
     !.eval_dir = <<"../checkpoints/eval/">> \o F.eval_label,
     !.eval_tag = F.eval_label]

\* variant: checkpoint_dir is overwritten like eval_dir
ApplyLabelDefaults_OverwriteCheckpoint(F) ==
  IF F.eval_label # <<>>
    THEN [F EXCEPT
            !.pipeline_config_path =
                IF F.pipeline_config_path = <<>>
                  THEN <<"../configs/test/">> \o F.eval_label \o <<".config">>
                  ELSE F.pipeline_config_path,
            !.checkpoint_dir = <<"../checkpoints/train/">> \o F.eval_label,
            !.eval_dir = <<"../checkpoints/eval/">> \o F.eval_label,
            !.eval_tag = F.eval_label]
    ELSE F

\* lines 176-182
ApplyLabelDefaults(F) ==
  IF F.eval_label # <<>>
    THEN [F EXCEPT
            !.pipeline_config_path =
                IF F.pipeline_config_path = <<>>
                  THEN <<"../configs/test/">> \o F.eval_label \o <<".config">>
                  ELSE F.pipeline_config_path,
            !.checkpoint_dir =
                IF F.checkpoint_dir = <<>>
                  THEN <<"../checkpoints/train/">> \o F.eval_label
                  ELSE F.checkpoint_dir,
            !.eval_dir = <<"../checkpoints/eval/">> \o F.eval_label,
            !.eval_tag = F.eval_label]
    ELSE F

\* variant: the assertion is dropped
CheckpointDirGiven_NoAssert(F) == TRUE

\* the condition asserted at line 184
CheckpointDirGiven(F) == F.checkpoint_dir # <<>>

cur == Len(calls)

\* lines 176-184: label defaults, then the assertion
EvalMainEnter ==
  /\ pc = "eval_main"
  /\ FLAGS' = ApplyLabelDefaults(FLAGS)
  /\ IF CheckpointDirGiven(FLAGS')
       THEN /\ pc' = "resolve"
            /\ calls' = [calls EXCEPT ![cur].exit = FLAGS']
       ELSE /\ pc' = "failed"
            /\ calls' = [calls EXCEPT ![cur].exit = FLAGS',
                                      ![cur].outcome = "assert"]
  /\ UNCHANGED <<FLAGS0, mode, eval_label_list, idx,
                 max_number_of_evaluations, graphResets>>

\* variant: the three-file branch is tested first
SelectStrategy_EvalFirst(F) ==
  IF F.eval_config_path # <<>> THEN "B"
  ELSE IF F.pipeline_config_path # <<>> THEN "A"
  ELSE "C"

\* lines 186-191
SelectStrategy(F) ==
  IF F.pipeline_config_path # <<>> THEN "A"
  ELSE IF F.eval_config_path # <<>> THEN "B"
  ELSE "C"

\* files opened by get_configs_from_pipeline_file, in order
PipelineFilePaths(F) == <<F.pipeline_config_path>>

\* variant: the model configuration is read from eval_config_path
MultipleFilesPaths_EvalTwice(F) ==
  <<F.eval_config_path, F.eval_config_path, F.input_config_path>>

\* files opened by get_configs_from_multiple_files, in order
MultipleFilesPaths(F) ==
  <<F.eval_config_path, F.model_config_path, F.input_config_path>>

\* files opened by get_configs_from_checkpoint_dir, in order
CheckpointDirPaths(F) ==
  <<Join(F.checkpoint_dir, <<"eval.config">>),
    Join(F.checkpoint_dir, <<"model.config">>),
    IF F.eval_training_data
      THEN Join(F.checkpoint_dir, <<"train_input.config">>)
      ELSE Join(F.checkpoint_dir, <<"eval_input.config">>)>>

\* tf.gfile.GFile(path, 'r').read() followed by text_format.Merge: the
\* number of leading files that are read and parsed; no file is opened
\* under the empty name, every other read may fail
ReadOutcomes(paths) ==
  {n \in 0..Len(paths) : \A k \in 1..n : paths[k] # <<>>}

Min(a, b) == IF a < b THEN a ELSE b

\* a strategy opens its files in order until one fails
RunStrategy(name, paths) ==
  \E n \in ReadOutcomes(paths) :
    LET attempted == SubSeq(paths, 1, Min(n + 1, Len(paths)))
        ok == n = Len(paths)
    IN  /\ calls' = [calls EXCEPT
                       ![cur].strategies = Append(@, name),
                       ![cur].reads = @ \o attempted,
                       ![cur].returned = IF ok THEN Append(@, name) ELSE @,
                       ![cur].outcome = IF ok THEN @ ELSE "error"]
        /\ pc' = IF ok THEN "derive" ELSE "failed"

GetConfigsFromPipelineFile ==
  /\ pc = "resolve"
  /\ SelectStrategy(FLAGS) = "A"
  /\ RunStrategy("A", PipelineFilePaths(FLAGS))
  /\ UNCHANGED <<FLAGS, FLAGS0, mode, eval_label_list, idx,
                 max_number_of_evaluations, graphResets>>

GetConfigsFromMultipleFiles ==
  /\ pc = "resolve"
  /\ SelectStrategy(FLAGS) = "B"
  /\ RunStrategy("B", MultipleFilesPaths(FLAGS))
  /\ UNCHANGED <<FLAGS, FLAGS0, mode, eval_label_list, idx,
                 max_number_of_evaluations, graphResets>>

GetConfigsFromCheckpointDir ==
  /\ pc = "resolve"
  /\ SelectStrategy(FLAGS) = "C"
  /\ RunStrategy("C", CheckpointDirPaths(FLAGS))
  /\ UNCHANGED <<FLAGS, FLAGS0, mode, eval_label_list, idx,
                 max_number_of_evaluations, graphResets>>

\* variant: the timestamp is used even when a tag is given
DeriveTag_AlwaysTimestamp(F, now) == now

\* line 194-195: the tag used for the derived directory
DeriveTag(F, now) == IF F.eval_tag = <<>> THEN now ELSE F.eval_tag

\* line 196: the derived directory name
DerivedDir(F) == F.checkpoint_dir \o <<"_eval_">> \o F.eval_tag

\* lines 193-196
DeriveEvalDir ==
  /\ pc = "derive"
  /\ IF FLAGS.eval_dir = <<>>
       THEN \E now \in Timestamps :
              LET T == [FLAGS EXCEPT !.eval_tag = DeriveTag(FLAGS, now)]
              IN  /\ FLAGS' = [T EXCEPT !.eval_dir = mkdir_p(DerivedDir(T))]
                  /\ calls' = [calls EXCEPT ![cur].exit = FLAGS',
                                            ![cur].mkdirs = Append(@, DerivedDir(T))]
       ELSE UNCHANGED <<FLAGS, calls>>
  /\ pc' = "load"
  /\ UNCHANGED <<FLAGS0, mode, eval_label_list, idx,
                 max_number_of_evaluations, graphResets>>

\* lines 198-213: record count and label map are read from the files named
\* by input_config; either read may raise
LoadInputs ==
  /\ pc = "load"
  /\ \E ok \in BOOLEAN :
       IF ok THEN /\ pc' = "evaluate"
                  /\ UNCHANGED calls
             ELSE /\ pc' = "failed"
                  /\ calls' = [calls EXCEPT ![cur].outcome = "error"]
  /\ UNCHANGED <<FLAGS, FLAGS0, mode, eval_label_list, idx,
                 max_number_of_evaluations, graphResets>>

\* lines 215-218: the evaluator is called; it returns or raises.  On return
\* eval_main returns to main: to the for loop of line 226, or to the exit.
Evaluate ==
  /\ pc = "evaluate"
  /\ \E ok \in BOOLEAN :
       /\ calls' = [calls EXCEPT
                      ![cur].evaluated =
                         Append(@, [checkpoint_dir |-> FLAGS.checkpoint_dir,
                                    eval_dir |-> FLAGS.eval_dir,
                                    max |-> max_number_of_evaluations]),
                      ![cur].outcome = IF ok THEN "returned" ELSE "error"]
       /\ IF ~ ok THEN /\ pc' = "failed"
                       /\ UNCHANGED idx
          ELSE IF mode = "MULTI_RUN"
                 THEN /\ pc' = "loop"
                      /\ idx' = idx + 1
                 ELSE /\ pc' = "done"
                      /\ UNCHANGED idx
  /\ UNCHANGED <<FLAGS, FLAGS0, mode, eval_label_list,
                 max_number_of_evaluations, graphResets>>

Next ==
  \/ Main
  \/ LoopIter
  \/ LoopBreak
  \/ EvalMainEnter
  \/ GetConfigsFromPipelineFile
  \/ GetConfigsFromMultipleFiles
  \/ GetConfigsFromCheckpointDir
  \/ DeriveEvalDir
  \/ LoadInputs
  \/ Evaluate

Spec == Init /\ [][Next]_vars

\* ============================================================ properties
Runs == 1..Len(calls)

\* invocation r has executed lines 176-184
Entered(r) == r < Len(calls) \/ pc # "eval_main"

\* invocation r has executed the strategy branch of lines 186-191
Resolved(r) == r < Len(calls) \/ pc \notin {"eval_main", "resolve"}

\* invocation r is over (it returned or raised)
Finished(r) == r < Len(calls) \/ pc \in {"loop", "done", "failed"}

HasComma(s) == \E k \in 1..Len(s) : s[k] = ","

ExpectedStrategy(F) ==
  CASE F.pipeline_config_path # <<>> -> "A"
    [] F.pipeline_config_path = <<>> /\ F.eval_config_path # <<>> -> "B"
    [] F.pipeline_config_path = <<>> /\ F.eval_config_path = <<>> -> "C"

IsPrefix(p, q) == Len(p) <= Len(q) /\ p = SubSeq(q, 1, Len(p))

\* C1: an invocation entered with checkpoint_dir and eval_label both empty
\* ends in the checkpoint_dir assertion failure with no configuration file
\* read, no directory created and no evaluator call, whatever the other
\* flags are.
C1_AssertBeforeIO ==
  \A r \in Runs :
    (Entered(r) /\ calls[r].entry.checkpoint_dir = <<>>
                /\ calls[r].entry.eval_label = <<>>)
      => /\ calls[r].outcome = "assert"
         /\ pc = "failed"
         /\ calls[r].strategies = <<>>
         /\ calls[r].reads = <<>>
         /\ calls[r].mkdirs = <<>>
         /\ calls[r].evaluated = <<>>

C1_Witness ==
  /\ pc = "failed"
  /\ mode = "SINGLE_RUN"
  /\ calls[1].entry.checkpoint_dir = <<>>
  /\ calls[1].entry.eval_label = <<>>
  /\ calls[1].entry.pipeline_config_path # <<>>
  /\ calls[1].entry.eval_config_path # <<>>
  /\ calls[1].entry.eval_dir = <<>>
  /\ calls[1].outcome = "assert"

\* C2 (as stated): every finished invocation ran exactly one strategy, the
\* one the selection policy names.
C2_ExactlyOnePerInvocation ==
  \A r \in Runs :
    Finished(r) => calls[r].strategies = <<ExpectedStrategy(calls[r].exit)>>

\* C2 (amended): an invocation that passes the checkpoint_dir assertion runs
\* exactly one strategy: A if pipeline_config_path is non-empty at resolution
\* time whatever the other paths, else B if eval_config_path is non-empty,
\* else C; an invocation that fails the assertion runs none.
C2_StrategySelection ==
  \A r \in Runs :
    /\ Len(calls[r].strategies) <= 1
    /\ calls[r].outcome = "assert" => calls[r].strategies = <<>>
    /\ (Resolved(r) /\ calls[r].outcome # "assert")
         => calls[r].strategies = <<ExpectedStrategy(calls[r].exit)>>

C2_Witness ==
  /\ pc = "done"
  /\ calls[1].exit.pipeline_config_path # <<>>
  /\ calls[1].exit.eval_config_path # <<>>
  /\ calls[1].exit.model_config_path # <<>>
  /\ calls[1].exit.input_config_path # <<>>
  /\ calls[1].strategies = <<"A">>
  /\ calls[1].reads = <<calls[1].exit.pipeline_config_path>>

\* C3: in MULTI_RUN the invocations of eval_main follow the label list in
\* order, one per element and never more; each is made with
\* pipeline_config_path and checkpoint_dir reset to empty, after one more
\* reset of the graph, and with max_number_of_evaluations = 1; when every
\* invocation has returned main is done after exactly one pass.
C3_SinglePassInOrder ==
  mode = "MULTI_RUN" =>
    /\ Len(calls) <= Len(eval_label_list)
    /\ graphResets = Len(calls)
    /\ \A r \in Runs :
         /\ calls[r].label = eval_label_list[r]
         /\ calls[r].entry.eval_label = eval_label_list[r]
         /\ calls[r].entry.pipeline_config_path = <<>>
         /\ calls[r].entry.checkpoint_dir = <<>>
         /\ calls[r].resets = r
         /\ calls[r].max = One
         /\ \A e \in 1..Len(calls[r].evaluated) : calls[r].evaluated[e].max = One
         /\ r < Len(calls) => calls[r].outcome = "returned"
    /\ pc = "done" =>
         /\ Len(calls) = Len(eval_label_list)
         /\ \A r \in Runs : calls[r].outcome = "returned"
                            /\ Len(calls[r].evaluated) = 1

C3_Witness ==
  /\ pc = "done"
  /\ mode = "MULTI_RUN"
  /\ FLAGS0.eval_label = <<"b", ",", "a">>
  /\ FLAGS0.checkpoint_dir # <<>>
  /\ FLAGS0.pipeline_config_path # <<>>
  /\ Len(calls) = 2
  /\ calls[1].label = <<"b">>
  /\ calls[2].label = <<"a">>

\* C4 (as stated, the particular case): every run started with eval_dir
\* empty and eval_tag = 'run1' hands '<checkpoint_dir>_eval_run1' to the
\* evaluator.
C4_Run1Always ==
  \A r \in Runs :
    (calls[r].entry.eval_dir = <<>> /\ calls[r].entry.eval_tag = <<"run1">>)
      => \A e \in 1..Len(calls[r].evaluated) :
           calls[r].evaluated[e].eval_dir
             = calls[r].evaluated[e].checkpoint_dir \o <<"_eval_">> \o <<"run1">>

\* C4 (amended): when output-directory derivation is reached with eval_dir
\* empty (which needs eval_label empty), the directory created and handed to
\* the evaluator is checkpoint_dir + '_eval_' + tag, the tag being eval_tag if
\* non-empty and a timestamp otherwise, and it is created before the
\* evaluator is called; with eval_tag = 'run1' and eval_label empty it is
\* '<checkpoint_dir>_eval_run1'.
C4_DerivedDir ==
  \A r \in Runs :
    LET c == calls[r]
        derives == c.entry.eval_dir = <<>> /\ c.entry.eval_label = <<>>
        tags == IF c.entry.eval_tag # <<>> THEN {c.entry.eval_tag} ELSE Timestamps
    IN  /\ c.mkdirs # <<>> => derives
        /\ Len(c.mkdirs) <= 1
        /\ \A m \in 1..Len(c.mkdirs) :
             /\ \E t \in tags : c.mkdirs[m] = c.entry.checkpoint_dir \o <<"_eval_">> \o t
             /\ c.exit.eval_dir = c.mkdirs[m]
        /\ derives =>
             \A e \in 1..Len(c.evaluated) :
               /\ c.mkdirs # <<>>
               /\ c.evaluated[e].eval_dir = c.mkdirs[1]
               /\ c.evaluated[e].checkpoint_dir = c.entry.checkpoint_dir
               /\ c.entry.eval_tag = <<"run1">> =>
                    c.evaluated[e].eval_dir
                      = c.entry.checkpoint_dir \o <<"_eval_">> \o <<"run1">>

C4_Witness ==
  /\ pc = "done"
  /\ calls[1].entry.eval_label = <<>>
  /\ calls[1].entry.eval_dir = <<>>
  /\ calls[1].entry.eval_tag = <<"run1">>
  /\ calls[1].mkdirs = <<<<"/tmp/ckpt", "_eval_", "run1">>>>
  /\ calls[1].evaluated[1].eval_dir = <<"/tmp/ckpt", "_eval_", "run1">>

\* C5: main is in MULTI_RUN exactly when eval_label holds more than one
\* comma-separated element; otherwise it is in SINGLE_RUN, where eval_main is
\* invoked once, with max_number_of_evaluations None, on the flags as given
\* and with no graph reset.
C5_TwoStateDriver ==
  mode # "NONE" =>
    /\ mode = "MULTI_RUN" <=> HasComma(FLAGS0.eval_label)
    /\ mode = "MULTI_RUN" => Len(eval_label_list) > 1
    /\ mode = "SINGLE_RUN" =>
         /\ Len(eval_label_list) = 1
         /\ Len(calls) = 1
         /\ calls[1].max = None
         /\ calls[1].entry = FLAGS0
         /\ calls[1].resets = 0
         /\ graphResets = 0
         /\ \A e \in 1..Len(calls[1].evaluated) : calls[1].evaluated[e].max = None

C5_Witness ==
  /\ pc = "done"
  /\ mode = "SINGLE_RUN"
  /\ FLAGS0.eval_label = <<"a", "b">>
  /\ FLAGS0.checkpoint_dir # <<>>
  /\ FLAGS0.pipeline_config_path # <<>>
  /\ Len(calls[1].evaluated) = 1

\* C6 (as stated): an invocation entered with checkpoint_dir empty fails the
\* precondition and never calls the evaluator, whatever the other flags.
C6_EmptyCheckpointAlwaysFails ==
  \A r \in Runs :
    (Entered(r) /\ calls[r].entry.checkpoint_dir = <<>>)
      => calls[r].outcome = "assert" /\ calls[r].evaluated = <<>>

\* C6 (amended): an invocation entered with checkpoint_dir empty fails the
\* precondition, and then never calls the evaluator, exactly when eval_label
\* is empty too, whatever the strategy flags; with a non-empty eval_label
\* checkpoint_dir becomes '../checkpoints/train/<eval_label>' and the
\* precondition holds.
C6_FailsIffNoLabel ==
  \A r \in Runs :
    /\ (Entered(r) /\ calls[r].entry.checkpoint_dir = <<>>) =>
         /\ calls[r].outcome = "assert" <=> calls[r].entry.eval_label = <<>>
         /\ calls[r].entry.eval_label # <<>> =>
              calls[r].exit.checkpoint_dir
                = <<"../checkpoints/train/">> \o calls[r].entry.eval_label
    /\ calls[r].outcome = "assert" =>
         /\ calls[r].entry.checkpoint_dir = <<>>
         /\ calls[r].evaluated = <<>>
         /\ pc = "failed"

C6_Witness ==
  /\ pc = "done"
  /\ mode = "SINGLE_RUN"
  /\ calls[1].entry.checkpoint_dir = <<>>
  /\ calls[1].entry.eval_label = <<"a">>
  /\ calls[1].entry.pipeline_config_path # <<>>
  /\ calls[1].evaluated[1].checkpoint_dir = <<"../checkpoints/train/", "a">>

Triple(F) == <<F.eval_config_path, F.model_config_path, F.input_config_path>>

PartialTriple(F) ==
  /\ \E k \in 1..3 : Triple(F)[k] # <<>>
  /\ \E k \in 1..3 : Triple(F)[k] = <<>>

C8_RunDependsOnLabelOnly ==
  mode = "MULTI_RUN" =>
    \A r \in Runs :
      LET c == calls[r]
          L == eval_label_list[r]
      IN  (L # <<>> /\ Entered(r)) =>
            /\ c.outcome # "assert"
            /\ c.exit.eval_label = L
            /\ Resolved(r) =>
                 /\ c.strategies = <<"A">>
                 /\ c.reads = << <<"../configs/test/">> \o L \o <<".config">> >>
            /\ c.mkdirs = <<>>
            /\ Len(c.evaluated) <= 1
            /\ \A e \in 1..Len(c.evaluated) :
                 /\ c.evaluated[e].checkpoint_dir = <<"../checkpoints/train/">> \o L
                 /\ c.evaluated[e].eval_dir = <<"../checkpoints/eval/">> \o L
            /\ Finished(r) /\ c.outcome = "returned" => Len(c.evaluated) = 1

C8_Witness ==
  /\ pc = "done"
  /\ mode = "MULTI_RUN"
  /\ FLAGS0.eval_label = <<"a", ",", "b">>
  /\ FLAGS0.checkpoint_dir # <<>>
  /\ FLAGS0.pipeline_config_path # <<>>
  /\ FLAGS0.eval_config_path # <<>>
  /\ FLAGS0.eval_dir # <<>>
  /\ FLAGS0.eval_tag # <<>>
  /\ calls[2].evaluated
       = <<[checkpoint_dir |-> <<"../checkpoints/train/", "b">>,
            eval_dir |-> <<"../checkpoints/eval/", "b">>,
            max |-> One]>>

\* C9: in MULTI_RUN the precondition fails for exactly the empty list
\* elements; when it fails at position k the evaluator was called, and
\* returned, for each of the k-1 elements before it, all of them non-empty,
\* and nothing runs after it.
C9_AssertIffEmptyElement ==
  mode = "MULTI_RUN" =>
    \A r \in Runs :
      /\ Entered(r) => (calls[r].outcome = "assert" <=> eval_label_list[r] = <<>>)
      /\ calls[r].outcome = "assert" =>
           /\ r = Len(calls)
           /\ pc = "failed"
           /\ calls[r].evaluated = <<>>
           /\ \A q \in 1..(r - 1) :
                /\ eval_label_list[q] # <<>>
                /\ Len(calls[q].evaluated) = 1
                /\ calls[q].outcome = "returned"

C9_Witness ==
  /\ pc = "failed"
  /\ mode = "MULTI_RUN"
  /\ FLAGS0.eval_label = <<"a", ",", ",">>
  /\ FLAGS0.checkpoint_dir # <<>>
  /\ Len(calls) = 2
  /\ calls[2].outcome = "assert"
  /\ Len(calls[1].evaluated) = 1

\* C10: an invocation with eval_label non-empty keeps a non-empty
\* pipeline_config_path and a non-empty checkpoint_dir as they were on entry,
\* fills the empty ones from the label, overwrites eval_dir and eval_tag,
\* never derives or creates '<checkpoint_dir>_eval_<tag>', and hands
\* '../checkpoints/eval/<eval_label>' to the evaluator.
C10_LabelFrame ==
  \A r \in Runs :
    LET c == calls[r]
        L == c.entry.eval_label
    IN  (Entered(r) /\ L # <<>>) =>
          /\ c.entry.pipeline_config_path # <<>> =>
               c.exit.pipeline_config_path = c.entry.pipeline_config_path
          /\ c.entry.checkpoint_dir # <<>> =>
               c.exit.checkpoint_dir = c.entry.checkpoint_dir
          /\ c.entry.pipeline_config_path = <<>> =>
               c.exit.pipeline_config_path = <<"../configs/test/">> \o L \o <<".config">>
          /\ c.entry.checkpoint_dir = <<>> =>
               c.exit.checkpoint_dir = <<"../checkpoints/train/">> \o L
          /\ c.exit.eval_dir = <<"../checkpoints/eval/">> \o L
          /\ c.exit.eval_tag = L
          /\ c.mkdirs = <<>>
          /\ \A e \in 1..Len(c.evaluated) :
               /\ c.evaluated[e].eval_dir = <<"../checkpoints/eval/">> \o L
               /\ c.evaluated[e].checkpoint_dir = c.exit.checkpoint_dir

C10_Witness ==
  /\ pc = "done"
  /\ mode = "SINGLE_RUN"
  /\ calls[1].entry.eval_label = <<"a">>
  /\ calls[1].entry.pipeline_config_path = <<"pipeline.pbtxt">>
  /\ calls[1].entry.checkpoint_dir = <<"/tmp/ckpt">>
  /\ calls[1].entry.eval_dir = <<"/tmp/out">>
  /\ calls[1].entry.eval_tag = <<"run1">>
  /\ calls[1].evaluated
       = <<[checkpoint_dir |-> <<"/tmp/ckpt">>,
            eval_dir |-> <<"../checkpoints/eval/", "a">>,
            max |-> None]>>
====
